---- MODULE Spec2Model ----
(***************************************************************************)
(* Rotary positional embeddings (src/rope.py): apply_rotary_emb and the    *)
(* broadcasting helper reshape_for_broadcast.                              *)
(*                                                                         *)
(* A tensor is a record [ok, shape, data]: shape is the sequence of its    *)
(* axis sizes and data its elements in row-major (contiguous) order.       *)
(* Numbers are exact rationals <<n, d>> in lowest terms, d > 0.            *)
(* torch.cos and torch.sin are evaluated on the angles the code produces,  *)
(* pos * inv_freq[i]: cis(inv_freq[i]) is a rational point U of the unit   *)
(* circle, one per distinct value of inv_freq[i], and cis(pos*inv_freq[i]) *)
(* is U^pos, computed by complex multiplication. Tensors are non-empty     *)
(* (every axis has size >= 1) and theta is a positive base.                *)
(***************************************************************************)
EXTENDS Integers, Sequences, FiniteSets, TLC

VARIABLES pc, fn, query, key, head_dim, max_seq_len, theta, ret, ret2,
          freqs_cis, x, hret

vars == <<pc, fn, query, key, head_dim, max_seq_len, theta, ret, ret2,
          freqs_cis, x, hret>>

(* ------------------------------ bounds -------------------------------- *)
MaxBatch == 2
MaxSeq == 3
MaxHeads == 2
MaxDim == 4
MaxHeadDim == 6
MaxRank == 4
MaxAxis == 3
MaxSeed == 0

\* theta: float = 10000.0
DefaultTheta == 10000

\* theta: the default of the signature and the degenerate base 1
Thetas == {1, DefaultTheta}

\* ranks of freqs_cis: the asserted rank 2, one below and one above
FreqRanks == {1, 2, 3}
\* max_seq_len: below and above the sequence lengths drawn
MaxSeqLens == {1, 2048}

(* --------------------------- exact numbers ---------------------------- *)
Abs(n) == IF n < 0 THEN -n ELSE n

RECURSIVE Gcd(_, _)
Gcd(a, b) == IF b = 0 THEN a ELSE Gcd(b, a % b)

Rat(n, d) == LET g == Gcd(Abs(n), d) IN <<n \div g, d \div g>>

RatMul(a, b) == Rat(a[1] * b[1], a[2] * b[2])

RatAdd(a, b) ==
    LET l == (a[2] \div Gcd(a[2], b[2])) * b[2]
    IN Rat(a[1] * (l \div a[2]) + b[1] * (l \div b[2]), l)

RatNeg(a) == <<-a[1], a[2]>>

RatSub(a, b) == RatAdd(a, RatNeg(b))

RECURSIVE Pow(_, _)
Pow(b, e) == IF e = 0 THEN 1 ELSE b * Pow(b, e - 1)

(* ------------------------------ tensors ------------------------------- *)
RECURSIVE Prod(_)
Prod(s) == IF s = <<>> THEN 1 ELSE Head(s) * Prod(Tail(s))

Tensor(shape, data) == [ok |-> TRUE, shape |-> shape, data |-> data]

\* a failed tensor operation (the library raised)
Raised == [ok |-> FALSE, shape |-> <<>>, data |-> <<>>]

\* Tensor.float(): the elements as floating-point numbers
ToFloat(t) == Tensor(t.shape, [k \in 1..Len(t.data) |-> <<t.data[k], 1>>])

\* row-major strides of a contiguous tensor of `shape`
Strides(shape) ==
    [a \in 1..Len(shape) |-> Prod(SubSeq(shape, a + 1, Len(shape)))]

\* 0-based offset, in a tensor with strides `st` whose axes of size 1 are
\* broadcast, of the element at 0-based flat position k0 of a tensor of
\* shape `out` with strides `ost`
RECURSIVE Offset(_, _, _, _, _, _)
Offset(shape, st, out, ost, k0, a) ==
    IF a = 0 THEN 0
    ELSE (IF shape[a] = 1 THEN 0 ELSE ((k0 \div ost[a]) % out[a]) * st[a])
         + Offset(shape, st, out, ost, k0, a - 1)

\* Tensor.reshape(shape): at most one entry of `shape` is -1 and is inferred
Reshape(t, shape) ==
    LET known == Prod([a \in 1..Len(shape) |->
                          IF shape[a] = -1 THEN 1 ELSE shape[a]])
        n == Len(t.data)
        infer == \E a \in 1..Len(shape) : shape[a] = -1
    IN IF infer
       THEN IF known = 0 \/ n % known # 0 THEN Raised
            ELSE Tensor([a \in 1..Len(shape) |->
                            IF shape[a] = -1 THEN n \div known ELSE shape[a]],
                        t.data)
       ELSE IF known # n THEN Raised ELSE Tensor(shape, t.data)

\* Tensor.unbind(-1)[j] for a last axis of size 2 (j = 0 or 1)
Unbind(t, j) ==
    Tensor(SubSeq(t.shape, 1, Len(t.shape) - 1),
           [k \in 1..(Len(t.data) \div 2) |-> t.data[2 * (k - 1) + j + 1]])

\* torch.stack([a, b], dim=-1) of two tensors of one shape
Stack(a, b) ==
    Tensor(a.shape \o <<2>>,
           [k \in 1..(2 * Len(a.data)) |->
               IF k % 2 = 1 THEN a.data[(k + 1) \div 2] ELSE b.data[k \div 2]])

Broadcastable(s, t) ==
    /\ Len(s) = Len(t)
    /\ \A a \in 1..Len(s) : s[a] = t[a] \/ s[a] = 1 \/ t[a] = 1

BroadcastShape(s, t) ==
    [a \in 1..Len(s) |-> IF s[a] = 1 THEN t[a] ELSE s[a]]

\* the binary operations on numbers the code applies elementwise
BinOp(op, u, v) ==
    CASE op = "mul" -> RatMul(u, v)
      [] op = "add" -> RatAdd(u, v)
      [] op = "sub" -> RatSub(u, v)

\* an elementwise binary operation with broadcasting
Elementwise(op, a, b) ==
    IF ~a.ok \/ ~b.ok THEN Raised
    ELSE IF ~Broadcastable(a.shape, b.shape) THEN Raised
    ELSE LET out == BroadcastShape(a.shape, b.shape)
             ost == Strides(out)
             ast == Strides(a.shape)
             bst == Strides(b.shape)
             n == Len(out)
         IN Tensor(out, [k \in 1..Prod(out) |->
                BinOp(op, a.data[1 + Offset(a.shape, ast, out, ost, k - 1, n)],
                      b.data[1 + Offset(b.shape, bst, out, ost, k - 1, n)])])

TMul(a, b) == Elementwise("mul", a, b)
TAdd(a, b) == Elementwise("add", a, b)
TSub(a, b) == Elementwise("sub", a, b)

(* --------------------------- trigonometry ----------------------------- *)
\* theta ** e for a rational exponent e: the number 1 when e = 0 or
\* theta = 1, and otherwise the power itself, kept exact
Power(th, e) ==
    IF e[1] = 0 \/ th = 1 THEN [base |-> 1, exp |-> <<0, 1>>]
    ELSE [base |-> th, exp |-> e]

\* 1.0 / v for a power v
Reciprocal(v) == [base |-> v.base, exp |-> RatNeg(v.exp)]

\* pos * f: the angle of `pos` steps of frequency f
Angle(pos, f) == [steps |-> pos, freq |-> f]

\* The rational point <<c, s, d>> (c/d, s/d) of the unit circle standing for
\* cis(f): the point of half-angle tangent n/m, with n/m = 1/2 for f = 1
\* (the triple 3, 4, 5) and n/m = a/(a+b) < 1/2 for f = theta^(-a/b), a/b in
\* lowest terms. Distinct exponents get distinct points (Thetas holds one
\* base other than 1, so the exponent identifies the value of f).
UnitOf(f) ==
    LET a == -f.exp[1]
        b == f.exp[2]
        m == IF a = 0 THEN 2 ELSE a + b
        n == IF a = 0 THEN 1 ELSE a
    IN <<m * m - n * n, 2 * m * n, m * m + n * n>>

\* <<re, im>> of (c + s*i)^p
RECURSIVE CisPow(_, _, _)
CisPow(c, s, p) ==
    IF p = 0 THEN <<1, 0>>
    ELSE LET r == CisPow(c, s, p - 1)
         IN <<r[1] * c - r[2] * s, r[1] * s + r[2] * c>>

\* torch.cos / torch.sin of one angle
Cos(ang) ==
    LET u == UnitOf(ang.freq)
    IN Rat(CisPow(u[1], u[2], ang.steps)[1], Pow(u[3], ang.steps))

Sin(ang) ==
    LET u == UnitOf(ang.freq)
    IN Rat(CisPow(u[1], u[2], ang.steps)[2], Pow(u[3], ang.steps))

(* -------------------------- apply_rotary_emb -------------------------- *)
\* torch.arange(0, head_dim): one frequency per feature
Arange2_step1(hd) == [i \in 1..hd |-> i - 1]

\* torch.arange(0, head_dim, 2): 0, 2, ... below head_dim
Arange2(hd) == [i \in 1..((hd + 1) \div 2) |-> 2 * (i - 1)]

\* inv_freq = 1.0 / (theta ** (torch.arange(0, head_dim, 2).float() / head_dim))
InvFreq(hd, th) ==
    LET ar == Arange2(hd)
    IN [i \in 1..Len(ar) |-> Reciprocal(Power(th, Rat(ar[i], hd)))]

\* positions counted from 1
Positions_from_one(seqlen) == [p \in 1..seqlen |-> p]

\* positions = torch.arange(seqlen).unsqueeze(1)
Positions(seqlen) == [p \in 1..seqlen |-> p - 1]

\* angles = positions * inv_freq, indexed [None, :, None, :]:
\* shape (1, seqlen, 1, len(inv_freq)), row-major
Angles(seqlen, inv_freq) ==
    LET n == Len(inv_freq)
        positions == Positions(seqlen)
    IN Tensor(<<1, seqlen, 1, n>>,
              [k \in 1..(seqlen * n) |->
                  Angle(positions[((k - 1) \div n) + 1],
                        inv_freq[((k - 1) % n) + 1])])

CosOf(angles) ==
    Tensor(angles.shape, [k \in 1..Len(angles.data) |-> Cos(angles.data[k])])

SinOf(angles) ==
    Tensor(angles.shape, [k \in 1..Len(angles.data) |-> Sin(angles.data[k])])

\* real * cos + imag * sin
RotatedReal_plus(real, imag, cos_angles, sin_angles) ==
    TAdd(TMul(real, cos_angles), TMul(imag, sin_angles))

\* real * cos - imag * sin
RotatedReal(real, imag, cos_angles, sin_angles) ==
    TSub(TMul(real, cos_angles), TMul(imag, sin_angles))

\* real * sin - imag * cos
RotatedImag_minus(real, imag, cos_angles, sin_angles) ==
    TSub(TMul(real, sin_angles), TMul(imag, cos_angles))

\* real * sin + imag * cos
RotatedImag(real, imag, cos_angles, sin_angles) ==
    TAdd(TMul(real, sin_angles), TMul(imag, cos_angles))

\* the pairs (i, i + D/2) of the two halves in place of (2i, 2i+1)
PairView_halves(t) ==
    LET D == t.shape[Len(t.shape)]
        f == ToFloat(t)
    IN IF D % 2 # 0 THEN Raised
       ELSE Tensor(SubSeq(t.shape, 1, Len(t.shape) - 1) \o <<D \div 2, 2>>,
                   [k \in 1..Len(f.data) |->
                       LET d == (k - 1) % D
                       IN f.data[k - d + (d \div 2) + (d % 2) * (D \div 2)]])

\* x.float().reshape(x.shape[:-1] + (-1, 2))
PairView(t) ==
    Reshape(ToFloat(t), SubSeq(t.shape, 1, Len(t.shape) - 1) \o <<-1, 2>>)

\* the stacked pairs returned without the reshape to `shape`
Recombine_stacked(real, imag, shape) == Stack(real, imag)

\* torch.stack([real, imag], dim=-1).reshape(*shape)
Recombine(real, imag, shape) == Reshape(Stack(real, imag), shape)

\* the positions cut at max_seq_len
SeqLenOf_capped(q, k, msl) == IF q.shape[2] < msl THEN q.shape[2] ELSE msl

\* the positions taken from the key
SeqLenOf_key(q, k, msl) == k.shape[2]

\* _, seqlen, _, _ = query.shape
SeqLenOf(q, k, msl) == q.shape[2]

Returned(q, k) ==
    [status |-> "ok", line |-> 0, query_out |-> q, key_out |-> k]

\* a RuntimeError of the tensor library, raised at `line` of src/rope.py
Failed(line) ==
    [status |-> "RuntimeError", line |-> line,
     query_out |-> Raised, key_out |-> Raised]

apply_rotary_emb(q, k, hd, msl, th) ==
    LET seqlen == SeqLenOf(q, k, msl)
        qp == PairView(q)
        kp == PairView(k)
        query_real == Unbind(qp, 0)
        query_imag == Unbind(qp, 1)
        key_real == Unbind(kp, 0)
        key_imag == Unbind(kp, 1)
        angles == Angles(seqlen, InvFreq(hd, th))
        sin_angles == SinOf(angles)
        cos_angles == CosOf(angles)
        query_rotated_real ==
            RotatedReal(query_real, query_imag, cos_angles, sin_angles)
        query_rotated_imag ==
            RotatedImag(query_real, query_imag, cos_angles, sin_angles)
        key_rotated_real ==
            RotatedReal(key_real, key_imag, cos_angles, sin_angles)
        key_rotated_imag ==
            RotatedImag(key_real, key_imag, cos_angles, sin_angles)
        query_out == Recombine(query_rotated_real, query_rotated_imag, q.shape)
        key_out == Recombine(key_rotated_real, key_rotated_imag, k.shape)
    IN IF ~qp.ok THEN Failed(59)
       ELSE IF ~kp.ok THEN Failed(60)
       ELSE IF ~query_rotated_real.ok THEN Failed(91)
       ELSE IF ~key_rotated_real.ok THEN Failed(97)
       ELSE IF ~query_out.ok THEN Failed(104)
       ELSE IF ~key_out.ok THEN Failed(105)
       ELSE Returned(query_out, key_out)

(* ------------------------ reshape_for_broadcast ----------------------- *)
HelperReturned(t) == [status |-> "ok", value |-> t]

HelperFailed(kind) == [status |-> kind, value |-> Raised]

\* assert 0 <= 1 < ndim
RankAsserted(xt) == 0 <= 1 /\ 1 < Len(xt.shape)

\* assert freqs_cis.shape == (x.shape[1], x.shape[-1])
ShapeAsserted(f, xt) == f.shape = <<xt.shape[2], xt.shape[Len(xt.shape)]>>

\* axis 0 kept in place of axis 1
BroadcastView_axis0(xt) ==
    LET ndim == Len(xt.shape)
    IN [a \in 1..ndim |->
           IF a - 1 = 0 \/ a - 1 = ndim - 1 THEN xt.shape[a] ELSE 1]

\* [d if i == 1 or i == ndim - 1 else 1 for i, d in enumerate(x.shape)]
BroadcastView(xt) ==
    LET ndim == Len(xt.shape)
    IN [a \in 1..ndim |->
           IF a - 1 = 1 \/ a - 1 = ndim - 1 THEN xt.shape[a] ELSE 1]

\* Tensor.view(shape) of a contiguous tensor
View(t, shape) == IF Prod(shape) # Len(t.data) THEN Raised ELSE Tensor(shape, t.data)

\* reading x.shape[1] raises IndexError when x has no axis 1
IndexRaises(xt) == Len(xt.shape) < 2

\* the shape asserted first: a rank-0 or rank-1 x fails in reading x.shape[1]
reshape_for_broadcast_shape_first(f, xt) ==
    IF IndexRaises(xt) THEN HelperFailed("IndexError")
    ELSE IF ~ShapeAsserted(f, xt) THEN HelperFailed("AssertionError")
    ELSE IF ~RankAsserted(xt) THEN HelperFailed("AssertionError")
    ELSE LET v == View(f, BroadcastView(xt))
         IN IF ~v.ok THEN HelperFailed("RuntimeError") ELSE HelperReturned(v)

reshape_for_broadcast(f, xt) ==
    IF ~RankAsserted(xt) THEN HelperFailed("AssertionError")
    ELSE IF IndexRaises(xt) THEN HelperFailed("IndexError")
    ELSE IF ~ShapeAsserted(f, xt) THEN HelperFailed("AssertionError")
    ELSE LET v == View(f, BroadcastView(xt))
         IN IF ~v.ok THEN HelperFailed("RuntimeError") ELSE HelperReturned(v)

(* ------------------------------- inputs ------------------------------- *)
Kinds == {"ramp", "tiled"}

\* Element k of an input: "ramp" runs through -2..2 along the flat order,
\* "tiled" repeats one (heads, head_dim) block at every batch and position.
InputValue(shape, kind, mult, seed, k) ==
    LET block == shape[Len(shape) - 1] * shape[Len(shape)]
        j == IF kind = "tiled" THEN ((k - 1) % block) + 1 ELSE k
    IN ((mult * j + seed) % 5) - 2

Input(shape, kind, mult, seed) ==
    Tensor(shape, [k \in 1..Prod(shape) |-> InputValue(shape, kind, mult, seed, k)])

Shapes4 == (1..MaxBatch) \X (1..MaxSeq) \X (1..MaxHeads) \X (1..MaxDim)

RECURSIVE ShapesOfRank(_)
ShapesOfRank(n) ==
    IF n = 0 THEN {<<>>}
    ELSE {Append(s, d) : s \in ShapesOfRank(n - 1), d \in 1..MaxAxis}

None == [status |-> "none", line |-> 0, query_out |-> Raised, key_out |-> Raised]

NoRecall == [max_seq_len |-> 0, result |-> None]

HelperNone == [status |-> "none", value |-> Raised]

\* the argument of a call that does not take it
NoTensor == [ok |-> FALSE, shape |-> <<>>, data |-> <<>>]

(* ---------------------------- state machine --------------------------- *)
\* a call of apply_rotary_emb outside the contract: query (B, S, H, Dq) and
\* key (B, Sk, H, Dk) of any sequence lengths and last dimensions, whatever
\* the declared head_dim and max_seq_len (theta is the default)
InitAny ==
    /\ pc = "called" /\ fn = "apply_rotary_emb"
    /\ \E qs \in Shapes4, ks \in Shapes4 :
          /\ qs[1] = ks[1] /\ qs[3] = ks[3]
          /\ query = Input(qs, "ramp", 1, 0)
          /\ key = Input(ks, "ramp", 3, 1)
    /\ head_dim \in 1..MaxHeadDim
    /\ max_seq_len \in MaxSeqLens
    /\ theta = DefaultTheta
    /\ ret = None /\ ret2 = NoRecall
    /\ freqs_cis = NoTensor /\ x = NoTensor /\ hret = HelperNone

\* a call within the documented contract: query (B, S, Hq, D) and key
\* (Bk, S, Hk, D) with D even, head_dim = D and S <= max_seq_len
InitContract ==
    /\ pc = "called" /\ fn = "apply_rotary_emb"
    /\ \E qs \in Shapes4, ks \in Shapes4, kind \in Kinds, seed \in 0..MaxSeed :
          /\ qs[2] = ks[2] /\ qs[4] = ks[4] /\ qs[4] % 2 = 0
          /\ head_dim = qs[4]
          /\ query = Input(qs, kind, 1, seed)
          /\ key = Input(ks, kind, 3, seed + 1)
          /\ max_seq_len \in {m \in MaxSeqLens : m >= qs[2]}
    /\ theta \in Thetas
    /\ ret = None /\ ret2 = NoRecall
    /\ freqs_cis = NoTensor /\ x = NoTensor /\ hret = HelperNone

\* a call of reshape_for_broadcast
InitHelper ==
    /\ pc = "called" /\ fn = "reshape_for_broadcast"
    /\ \E xr \in 0..MaxRank, fr \in FreqRanks :
          \E xs \in ShapesOfRank(xr), fs \in ShapesOfRank(fr) :
              /\ x = Input(xs, "ramp", 1, 0)
              /\ freqs_cis = Input(fs, "ramp", 1, 0)
    /\ query = NoTensor /\ key = NoTensor
    /\ head_dim = 0 /\ max_seq_len = 0 /\ theta = 0
    /\ ret = None /\ ret2 = NoRecall /\ hret = HelperNone

Init == InitAny \/ InitContract \/ InitHelper

\* the call of apply_rotary_emb runs to its return or its exception
Call ==
    /\ pc = "called" /\ fn = "apply_rotary_emb"
    /\ ret' = apply_rotary_emb(query, key, head_dim, max_seq_len, theta)
    /\ pc' = "returned"
    /\ UNCHANGED <<fn, query, key, head_dim, max_seq_len, theta, ret2,
                   freqs_cis, x, hret>>

\* the same call again, with another max_seq_len
Recall ==
    /\ pc = "returned" /\ fn = "apply_rotary_emb"
    /\ \E m \in MaxSeqLens \ {max_seq_len} :
          ret2' = [max_seq_len |-> m,
                   result |-> apply_rotary_emb(query, key, head_dim, m, theta)]
    /\ pc' = "recalled"
    /\ UNCHANGED <<fn, query, key, head_dim, max_seq_len, theta, ret,
                   freqs_cis, x, hret>>

\* the call of reshape_for_broadcast runs to its return or its exception
CallHelper ==
    /\ pc = "called" /\ fn = "reshape_for_broadcast"
    /\ hret' = reshape_for_broadcast(freqs_cis, x)
    /\ pc' = "returned"
    /\ UNCHANGED <<fn, query, key, head_dim, max_seq_len, theta, ret, ret2,
                   freqs_cis, x>>

Next == Call \/ Recall \/ CallHelper

NextApply == Call \/ Recall

NextContract == Call

NextHelper == CallHelper

Spec == Init /\ [][Next]_vars

SpecApply == InitAny /\ [][NextApply]_vars

SpecContract == InitContract /\ [][NextContract]_vars

SpecHelper == InitHelper /\ [][NextHelper]_vars

(* ------------------------------- claims ------------------------------- *)
HelperDone == fn = "reshape_for_broadcast" /\ pc = "returned"

\* the shape reshape_for_broadcast asserts freqs_cis to have
AssertedShape == <<x.shape[2], x.shape[Len(x.shape)]>>

\* C4: reshape_for_broadcast fails with an AssertionError, and returns no
\* tensor, whenever x has fewer than 2 dimensions or the shape of freqs_cis
\* is not (x.shape[1], x.shape[-1]); the rank is checked first, so a rank-0
\* or rank-1 x never yields an IndexError.
C4_AssertionOnRankOrShape ==
    HelperDone =>
        /\ Len(x.shape) < 2 => hret = HelperFailed("AssertionError")
        /\ (Len(x.shape) >= 2 /\ freqs_cis.shape # AssertedShape)
               => hret = HelperFailed("AssertionError")
        /\ hret.status # "IndexError"

C4_Witness ==
    /\ HelperDone
    /\ Len(x.shape) = 1
    /\ Len(freqs_cis.shape) = 2
    /\ hret.status = "AssertionError"

\* the shape C5 describes: rank of x, axis 1 and the last axis as in x,
\* every other axis 1
C5_ViewShape ==
    [a \in 1..Len(x.shape) |->
        IF a = 2 THEN x.shape[2]
        ELSE IF a = Len(x.shape) THEN x.shape[Len(x.shape)] ELSE 1]

C5_Succeeds ==
    /\ hret.status = "ok"
    /\ hret.value.shape = C5_ViewShape
    /\ hret.value.data = freqs_cis.data
    /\ Prod(hret.value.shape) = Prod(freqs_cis.shape)
    /\ Broadcastable(hret.value.shape, x.shape)

\* C5 as stated: for every x of rank n >= 2 (n = 2 included) and freqs_cis
\* of shape (x.shape[1], x.shape[-1]) the call succeeds with that view.
C5_Original ==
    (HelperDone /\ Len(x.shape) >= 2 /\ freqs_cis.shape = AssertedShape)
        => C5_Succeeds

\* C5 (amended): for x of rank n >= 3, or of rank 2 with x.shape[1] = 1, and
\* freqs_cis of shape (x.shape[1], x.shape[-1]), the call returns the view
\* of freqs_cis of rank n with axis 1 and the last axis as in x and every
\* other axis 1, holding the elements of freqs_cis; for x of rank 2 with
\* x.shape[1] > 1 the view (1, x.shape[1]) has fewer elements than freqs_cis
\* and the call fails with the library's RuntimeError.
C5_ViewForRank3 ==
    (HelperDone /\ Len(x.shape) >= 2 /\ freqs_cis.shape = AssertedShape) =>
        IF Len(x.shape) >= 3 \/ x.shape[2] = 1
        THEN C5_Succeeds
        ELSE hret = HelperFailed("RuntimeError")

C5_Witness ==
    /\ HelperDone
    /\ Len(x.shape) = 4
    /\ x.shape[2] > 1 /\ x.shape[4] > 1 /\ x.shape[1] > 1
    /\ freqs_cis.shape = AssertedShape
    /\ hret.status = "ok"

ApplyDone == fn = "apply_rotary_emb" /\ pc # "called"

\* position and feature index (0-based) of the element at flat position k
\* of a rank-4 tensor (batch, position, head, feature)
PosOf(t, k) == ((k - 1) \div (t.shape[3] * t.shape[4])) % t.shape[2]

DimOf(t, k) == (k - 1) % t.shape[4]

\* inv_freq[i] = theta^(-2i/head_dim), as the data model states it
FreqOf(i) == Reciprocal(Power(theta, Rat(2 * i, head_dim)))

\* Element k of t rotated as position p: with (real, imag) the pair
\* (2i, 2i+1) that k belongs to and a = p * inv_freq[i],
\* real*cos(a) - imag*sin(a) at 2i and real*sin(a) + imag*cos(a) at 2i+1.
RotatedAt(t, k, p) ==
    LET d == DimOf(t, k)
        real == <<t.data[k - (d % 2)], 1>>
        imag == <<t.data[k - (d % 2) + 1], 1>>
        a == Angle(p, FreqOf(d \div 2))
    IN IF d % 2 = 0
       THEN RatSub(RatMul(real, Cos(a)), RatMul(imag, Sin(a)))
       ELSE RatAdd(RatMul(real, Sin(a)), RatMul(imag, Cos(a)))

RotatedByPosition(out, t) ==
    /\ out.ok
    /\ Len(out.data) = Len(t.data)
    /\ \A k \in 1..Len(t.data) : out.data[k] = RotatedAt(t, k, PosOf(t, k))

\* C1: for query (B, S, Hq, D) and key (Bk, S, Hk, D) with D even and
\* head_dim = D the call returns (query_out, key_out), query_out of the shape
\* of query and key_out of the shape of key, also when Hq differs from Hk.
C1_OutputShapes ==
    pc = "returned" =>
        /\ ret.status = "ok"
        /\ ret.query_out.shape = query.shape
        /\ ret.key_out.shape = key.shape
        /\ Len(ret.query_out.data) = Prod(query.shape)
        /\ Len(ret.key_out.data) = Prod(key.shape)

C1_Witness ==
    /\ pc = "returned"
    /\ query.shape[3] # key.shape[3]
    /\ query.shape[1] # key.shape[1]
    /\ query.shape[4] = 4
    /\ ret.status = "ok"
    /\ ret.key_out.shape = key.shape

\* C2: every output element is the 2D rotation of its input pair by
\* a = pos * inv_freq[i]: out[b,pos,h,2i] = x[2i]*cos(a) - x[2i+1]*sin(a) and
\* out[b,pos,h,2i+1] = x[2i]*sin(a) + x[2i+1]*cos(a); the angle depends on
\* (pos, i) only and the pair on the input pair at the same (b, pos, h, i);
\* for query and key.
C2_PairwiseRotation ==
    pc = "returned" =>
        /\ RotatedByPosition(ret.query_out, query)
        /\ RotatedByPosition(ret.key_out, key)

C2_Witness ==
    /\ pc = "returned"
    /\ theta # 1
    /\ query.shape = <<2, 3, 2, 4>>
    /\ key.shape[3] = 1
    /\ \E k \in 1..Len(query.data) :
          /\ PosOf(query, k) = 2 /\ DimOf(query, k) = 3
          /\ ret.query_out.data[k] # <<query.data[k], 1>>
          /\ ret.query_out.data[k] = RotatedAt(query, k, 2)

IdentityAtPosition0(out, t) ==
    /\ out.ok
    /\ \A k \in 1..Len(t.data) :
          PosOf(t, k) = 0 => out.data[k] = <<t.data[k], 1>>

\* C3: at position 0 the rotation is the identity, for every theta, every
\* even head_dim, every batch index and head, for query and key; with
\* seq_len = 1 the whole output equals the whole input.
C3_IdentityAtPosition0 ==
    pc = "returned" =>
        /\ IdentityAtPosition0(ret.query_out, query)
        /\ IdentityAtPosition0(ret.key_out, key)
        /\ query.shape[2] = 1 =>
              /\ ret.query_out.data = ToFloat(query).data
              /\ ret.key_out.data = ToFloat(key).data

C3_Witness ==
    /\ pc = "returned"
    /\ theta # 1 /\ head_dim = 4
    /\ query.shape[2] > 1
    /\ ret.status = "ok"
    /\ \E k \in 1..Len(query.data) :
          PosOf(query, k) = 0 /\ query.data[k] # 0
             /\ ret.query_out.data[k] = <<query.data[k], 1>>
    /\ \E k \in 1..Len(query.data) :
          PosOf(query, k) = 1 /\ ret.query_out.data[k] # <<query.data[k], 1>>

\* flat position (1-based) of element [b, pos, h, 0] of a rank-4 tensor
\* (b, pos and h 0-based)
VectorAt(t, b, pos, h) ==
    1 + ((b * t.shape[2] + pos) * t.shape[3] + h) * t.shape[4]

RatSquare(a) == RatMul(a, a)

NormPreserved(out, t) ==
    /\ out.ok
    /\ \A k \in 1..Len(t.data) :
          DimOf(t, k) % 2 = 0 =>
              RatAdd(RatSquare(out.data[k]), RatSquare(out.data[k + 1]))
                  = <<t.data[k] * t.data[k] + t.data[k + 1] * t.data[k + 1], 1>>

\* C8: the rotation preserves the norm of every pair: real'^2 + imag'^2 of
\* the output pair equals real^2 + imag^2 of the input pair, for every
\* batch index, position, head and pair index, for query and key.
C8_PairNormPreserved ==
    pc = "returned" =>
        /\ NormPreserved(ret.query_out, query)
        /\ NormPreserved(ret.key_out, key)

C8_Witness ==
    /\ pc = "returned"
    /\ theta # 1 /\ head_dim = 4
    /\ ret.status = "ok"
    /\ \E k \in 1..Len(key.data) :
          /\ DimOf(key, k) = 2 /\ PosOf(key, k) = 2
          /\ ret.key_out.data[k] # <<key.data[k], 1>>
          /\ key.data[k] # 0 /\ key.data[k + 1] # 0
          /\ RatAdd(RatSquare(ret.key_out.data[k]),
                    RatSquare(ret.key_out.data[k + 1]))
                 = <<key.data[k] * key.data[k]
                        + key.data[k + 1] * key.data[k + 1], 1>>

\* the vector of D elements of t that starts at flat position v
Vector(t, v) == [d \in 1..t.shape[4] |-> t.data[v + d - 1]]

\* dot product of the vector of a at flat position va with that of b at vb
RECURSIVE DotFrom(_, _, _, _, _)
DotFrom(a, va, b, vb, n) ==
    IF n = 0 THEN <<0, 1>>
    ELSE RatAdd(RatMul(a.data[va + n - 1], b.data[vb + n - 1]),
                DotFrom(a, va, b, vb, n - 1))

\* the attention score of the rotated query vector [b, i, hq] with the
\* rotated key vector [b, j, hk]
Score(b, i, hq, j, hk) ==
    DotFrom(ret.query_out, VectorAt(query, b, i, hq),
            ret.key_out, VectorAt(key, b, j, hk), head_dim)

Min(a, b) == IF a < b THEN a ELSE b

\* positions i, j and i2, j2 of one offset that hold one query vector q
\* (at i and i2, head hq) and one key vector k (at j and j2, head hk)
SamePair(b, hq, hk, i, j, i2, j2) ==
    /\ i - j = i2 - j2
    /\ Vector(query, VectorAt(query, b, i, hq))
           = Vector(query, VectorAt(query, b, i2, hq))
    /\ Vector(key, VectorAt(key, b, j, hk))
           = Vector(key, VectorAt(key, b, j2, hk))

\* C7: relative-position property: for a query vector q and a key vector k
\* and positions i, j, i2, j2 with i - j = i2 - j2, the dot product of q
\* rotated at i with k rotated at j equals that of q rotated at i2 with k
\* rotated at j2.
C7_RelativePosition ==
    pc = "returned" =>
        \A b \in 0..(Min(query.shape[1], key.shape[1]) - 1) :
        \A hq \in 0..(query.shape[3] - 1), hk \in 0..(key.shape[3] - 1) :
        \A i, j, i2, j2 \in 0..(query.shape[2] - 1) :
            (i < i2 /\ SamePair(b, hq, hk, i, j, i2, j2))
                => Score(b, i, hq, j, hk) = Score(b, i2, hq, j2, hk)

C7_Witness ==
    /\ pc = "returned"
    /\ theta # 1 /\ head_dim = 4
    /\ query.shape[3] # key.shape[3]
    /\ query.shape[2] >= 3
    /\ SamePair(0, 0, 0, 0, 1, 1, 2)
    /\ Score(0, 0, 0, 1, 0) = Score(0, 1, 0, 2, 0)
    /\ Score(0, 0, 0, 1, 0) # Score(0, 1, 0, 1, 0)
    /\ Score(0, 0, 0, 1, 0) # <<0, 1>>

\* the number of frequencies torch.arange(0, head_dim, 2) yields
FreqCount == (head_dim + 1) \div 2

\* C6 as stated: the call aborts whenever the declared head_dim is odd or
\* the last dimension of query or of key differs from the declared head_dim.
C6_Original ==
    (ApplyDone /\ (head_dim % 2 = 1 \/ query.shape[4] # head_dim
                      \/ key.shape[4] # head_dim))
        => ret.status = "RuntimeError"

C6_Aborting ==
    \/ query.shape[4] % 2 = 1
    \/ key.shape[4] % 2 = 1
    \/ /\ FreqCount # 1
       /\ 2 * FreqCount # query.shape[4] \/ 2 * FreqCount # key.shape[4]

\* C6 (amended): the call aborts with an error and returns no result
\* whenever the last dimension of query or of key is odd, or the number of
\* frequencies ceil(head_dim/2) is neither 1 nor half the last dimension of
\* query and of key. In every other case with query and key of one sequence
\* length it returns: a declared head_dim of 1 or 2 (one frequency, which
\* broadcasts over every pair) with any even last dimension, and an odd
\* declared head_dim with last dimension head_dim + 1, do not abort.
C6_AbortsOnMisalignedDims ==
    ApplyDone =>
        /\ C6_Aborting =>
              /\ ret.status = "RuntimeError"
              /\ ~ret.query_out.ok /\ ~ret.key_out.ok
        /\ (~C6_Aborting /\ query.shape[2] = key.shape[2]) =>
              /\ ret.status = "ok"
              /\ ret.query_out.shape = query.shape
              /\ ret.key_out.shape = key.shape

C6_Witness ==
    /\ ApplyDone
    /\ head_dim = 6
    /\ query.shape[4] = 2 /\ key.shape[4] = 2
    /\ query.shape[2] = key.shape[2]
    /\ ret.status = "RuntimeError" /\ ret.line = 104

\* C9: max_seq_len has no effect: two calls that differ only in max_seq_len
\* have one outcome (the same outputs, or both fail); a query longer than
\* max_seq_len is neither rejected nor truncated.
C9_MaxSeqLenUnused ==
    /\ (fn = "apply_rotary_emb" /\ pc = "recalled") =>
          /\ ret2.max_seq_len # max_seq_len
          /\ ret2.result = ret
    /\ (ApplyDone /\ query.shape[2] = key.shape[2]
           /\ query.shape[4] = head_dim /\ key.shape[4] = head_dim
           /\ head_dim % 2 = 0) =>
          /\ ret.status = "ok"
          /\ ret.query_out.shape = query.shape
          /\ ret.key_out.shape = key.shape

C9_Witness ==
    /\ fn = "apply_rotary_emb" /\ pc = "recalled"
    /\ max_seq_len = 1 /\ ret2.max_seq_len > query.shape[2]
    /\ query.shape[2] = 3 /\ key.shape[2] = 3
    /\ head_dim = 4
    /\ ret.status = "ok" /\ ret2.result.status = "ok"
    /\ \E k \in 1..Len(query.data) :
          PosOf(query, k) = 2 /\ ret.query_out.data[k] # <<query.data[k], 1>>

\* C10 as stated: whenever the sequence length of key differs from that of
\* query the call fails and returns no key output.
C10_Original ==
    (ApplyDone /\ key.shape[2] # query.shape[2]) =>
        ret.status = "RuntimeError" /\ ~ret.key_out.ok

\* every vector of key_out is the key vector rotated as its own position
\* or, with `broadcast`, as position 0
KeyRotatedAs(broadcast) ==
    /\ ret.key_out.ok
    /\ Len(ret.key_out.data) = Len(key.data)
    /\ \A k \in 1..Len(key.data) :
          ret.key_out.data[k]
              = RotatedAt(key, k, IF broadcast THEN 0 ELSE PosOf(key, k))

\* C10 (amended): the positions are derived from the sequence length of
\* query only. Whenever the sequence length of key differs from that of
\* query and that of query is not 1, the call fails and returns no key
\* output. A query of sequence length 1 broadcasts: with a longer key (and
\* head_dim the even last dimension of both) the call returns, and every
\* key vector, whatever its position, has been rotated by angle 0, that is,
\* is unchanged. A returned key vector at position pos has been rotated by
\* pos * inv_freq[i] when the two sequence lengths are equal.
C10_KeyPositionsFromQuery ==
    ApplyDone =>
        /\ (key.shape[2] # query.shape[2] /\ query.shape[2] # 1) =>
              ret.status = "RuntimeError" /\ ~ret.key_out.ok
        /\ (query.shape[4] = head_dim /\ key.shape[4] = head_dim
               /\ head_dim % 2 = 0) =>
              /\ query.shape[2] = 1 =>
                    /\ ret.status = "ok"
                    /\ KeyRotatedAs(TRUE)
                    /\ ret.key_out.data = ToFloat(key).data
              /\ query.shape[2] = key.shape[2] =>
                    /\ ret.status = "ok"
                    /\ KeyRotatedAs(FALSE)

C10_Witness ==
    /\ ApplyDone
    /\ query.shape[2] = 1 /\ key.shape[2] = 3
    /\ head_dim = 4 /\ query.shape[4] = 4 /\ key.shape[4] = 4
    /\ ret.status = "ok"
    /\ ret.key_out.data = ToFloat(key).data
    /\ \E k \in 1..Len(key.data) :
          /\ PosOf(key, k) = 2
          /\ RotatedAt(key, k, 2) # ret.key_out.data[k]

====
